---- MODULE Spec2Model ----
(***************************************************************************)
(* Model of ml-service/app.py: the Flask forecasting stub.                 *)
(*                                                                         *)
(* Numbers.  Python floats are modelled as exact fixed-point integers:     *)
(*   prices inside the generator   in 1/1000 of a rupee  ("milli"),        *)
(*   rounded price fields          in 1/100  of a rupee  ("centi"),        *)
(*   confidence before rounding    in 1/10000,                             *)
(*   rounded confidence            in 1/1000,                              *)
(*   model accuracy                in 1/100.                               *)
(* Python's round(x, n) is round-half-to-even and is modelled as such.     *)
(*                                                                         *)
(* JSON values are tagged records [t, s, n]: t is the JSON type seen by    *)
(* the handler ("absent" when the key is not in the object).               *)
(***************************************************************************)
EXTENDS Integers, Sequences, FiniteSets, TLC

VARIABLES
    MOCK_MODELS,   \* the module-level model catalog (a dict)
    DEBUG,         \* CONFIG['DEBUG'], fixed at process start
    strict_json,   \* whether the installed Flask rejects a non-JSON mimetype in get_json()
    threads,       \* the server's request threads (one, or two when it serves concurrently)
    pc,            \* per thread: position of its request cycle
    request,       \* per thread: the request being handled
    response,      \* per thread: the response built for it
    raised,        \* per thread: text of the exception caught while handling it ("" if none)
    logged         \* status codes written so far by log_response

vars == <<MOCK_MODELS, DEBUG, strict_json, threads, pc, request, response, raised, logged>>

----------------------------------------------------------------------------
(* Bounds of the model *)

\* length of the cycle of random draws chosen per call of the generator
DrawLen == 2
\* horizons -1 .. MaxDays are all requested
MaxDays == 2
\* one long horizon, past the index where the confidence floor is reached
LongHorizon == 37

\* outcomes of np.random.normal(0, sigma), sigma > 0, in milli-rupees: any
\* real is a possible outcome; these include draws below minus the base
\* price, a draw that lands exactly on zero for NIFTY50, and small draws
\* that give rounding ties
Deltas == {-30000000, -21850000, -435, 43505}

Draws == [1..DrawLen -> Deltas]

----------------------------------------------------------------------------
(* JSON values *)

Absent == [t |-> "absent", s |-> "", n |-> 0]
Str(x) == [t |-> "str", s |-> x, n |-> 0]
Num(k) == [t |-> "int", s |-> "", n |-> k]

\* str.upper() on the strings that occur
Upper(s) ==
    CASE s = "sensex"   -> "SENSEX"
      [] s = "Sensex"   -> "SENSEX"
      [] s = "nifty50"  -> "NIFTY50"
      [] s = "dowjones" -> "DOWJONES"
      [] s = "lstm"     -> "LSTM"
      [] s = "arima"    -> "ARIMA"
      [] s = "unknown"  -> "UNKNOWN"
      [] OTHER          -> s

\* str(n) of an integer, in decimal
Digit(k) ==
    CASE k = 0 -> "0" [] k = 1 -> "1" [] k = 2 -> "2" [] k = 3 -> "3" [] k = 4 -> "4"
      [] k = 5 -> "5" [] k = 6 -> "6" [] k = 7 -> "7" [] k = 8 -> "8" [] OTHER -> "9"

RECURSIVE ToStr(_)
ToStr(n) ==
    IF n < 0 THEN "-" \o ToStr(0 - n)
    ELSE IF n < 10 THEN Digit(n)
    ELSE ToStr(n \div 10) \o Digit(n % 10)

----------------------------------------------------------------------------
(* The model catalog and configuration *)

InitialCatalog ==
    [m \in {"LSTM", "CNN_LSTM", "ARIMA", "SARIMA", "ARCH_GARCH"} |->
        [accuracy |-> CASE m = "LSTM"     -> 85
                         [] m = "CNN_LSTM" -> 82
                         [] m = "ARIMA"    -> 78
                         [] m = "SARIMA"   -> 80
                         [] OTHER          -> 75,
         last_trained |-> "2024-01-15T10:30:00Z"]]

SupportedSymbols == <<"SENSEX", "NIFTY50">>

\* the routes registered with @app.route: <<method, path>>
url_map ==
    { <<"GET", "/health">>, <<"GET", "/health/detailed">>, <<"POST", "/forecast">>,
      <<"GET", "/models">>, <<"GET", "/error/400">>, <<"GET", "/error/500">>,
      <<"GET", "/error/throw">> }

\* the list the 404 handler returns
available_endpoints ==
    { <<"GET", "/health">>, <<"GET", "/health/detailed">>, <<"POST", "/forecast">>,
      <<"GET", "/models">>, <<"GET", "/error/400">>, <<"GET", "/error/500">> }

----------------------------------------------------------------------------
(* generate_mock_forecast *)

\* round-half-to-even of the rational n/d (d > 0) to an integer
RoundHalfEven(n, d) ==
    LET q == n \div d
        r == n % d
    IN  IF 2 * r < d THEN q
        ELSE IF 2 * r > d THEN q + 1
        ELSE IF q % 2 = 0 THEN q ELSE q + 1

Max(a, b) == IF a >= b THEN a ELSE b

\* the decay without its floor: round(0.95 - i*0.01, 3)
Confidence_NoFloor(i) == RoundHalfEven(9500 - i * 100, 10)

\* confidence of point i: round(max(0.6, 0.95 - i*0.01), 3), in 1/1000
Confidence(i) == RoundHalfEven(Max(6000, 9500 - i * 100), 10)

\* one ForecastPoint from the unrounded predicted price p (milli) of index i
ForecastPoint(i, p) ==
    [ day             |-> i + 1,
      predicted_price |-> RoundHalfEven(p, 10),
      confidence      |-> Confidence(i),
      upper_bound     |-> RoundHalfEven(p * 21, 200),
      lower_bound     |-> RoundHalfEven(p * 19, 200) ]

\* np.random.normal(0, base*0.02): raises ValueError for a negative scale,
\* returns exactly 0 for scale 0, otherwise the next draw of the cycle d
NormalRaises(base) == base < 0
Normal(base, d, i) == IF base = 0 THEN 0 ELSE d[(i % DrawLen) + 1]

base_price(symbol) == IF Upper(symbol) = "SENSEX" THEN 72500000 ELSE 21850000

Raise(text) == [ok |-> FALSE, value |-> <<>>, error |-> text]
Return(v)   == [ok |-> TRUE, value |-> v, error |-> ""]

\* the loop of generate_mock_forecast from index i with running price base
RECURSIVE ForecastLoop(_, _, _, _, _)
ForecastLoop(i, days, base, acc, d) ==
    IF i >= days THEN Return(acc)
    ELSE IF NormalRaises(base) THEN Raise("scale < 0")
    ELSE LET predicted == base + Normal(base, d, i)
         IN  ForecastLoop(i + 1, days, predicted, Append(acc, ForecastPoint(i, predicted)), d)

\* days is a JSON value: range(days) raises TypeError unless it is an integer
generate_mock_forecast(symbol, days, d) ==
    IF days.t # "int"
    THEN Raise("'" \o days.t \o "' object cannot be interpreted as an integer")
    ELSE ForecastLoop(0, days.n, base_price(symbol), <<>>, d)

----------------------------------------------------------------------------
(* Requests *)

\* body.kind: "none" no bytes, "garbage" unparseable, "null" / "emptylist" /
\* "int" / "str" / "list_symbol" a JSON value that is not an object
\* (list_symbol is the list ["symbol"]), "obj" a JSON object with the keys
\* symbol, model, days that are not Absent
Body(kind, symbol, model, days) ==
    [kind |-> kind, symbol |-> symbol, model |-> model, days |-> days]

Plain(kind) == Body(kind, Absent, Absent, Absent)

SymbolInputs == {Absent, Str("SENSEX"), Str("nifty50"), Str("dowjones"), Num(5)}
ModelInputs  == {Absent, Str("LSTM"), Str("arima"), Str("unknown"), Num(5)}
DaysInputs   == {Absent, Str("x"), Num(LongHorizon)} \cup {Num(k) : k \in -1..MaxDays}

Objects == {Body("obj", s, m, d) : s \in SymbolInputs, m \in ModelInputs, d \in DaysInputs}

NonObjects == {Plain(k) : k \in {"none", "garbage", "null", "emptylist", "int", "str", "list_symbol"}}

Req(method, path, is_json, body) ==
    [method |-> method, path |-> path, is_json |-> is_json, body |-> body]

Requests ==
    {Req("POST", "/forecast", TRUE, b) : b \in Objects \cup NonObjects}
    \cup {Req("POST", "/forecast", FALSE, b) :
             b \in {Plain("none"), Plain("garbage"), Body("obj", Str("SENSEX"), Absent, Num(1))}}
    \cup {Req(r[1], r[2], FALSE, Plain("none")) : r \in url_map}
    \cup {Req("GET", p, j, Plain("garbage")) : p \in {"/health", "/does-not-exist"}, j \in BOOLEAN}
    \cup {Req(m, "/does-not-exist", FALSE, Plain("none")) : m \in {"GET", "POST"}}
    \cup {Req("GET", "/forecast", FALSE, Plain("none")), Req("POST", "/models", TRUE, Plain("null"))}

NoRequest == Req("", "", FALSE, Plain("none"))

----------------------------------------------------------------------------
(* Response envelopes *)

NoData == [none |-> TRUE]

ErrorEnvelope(http, message, details) ==
    [ http |-> http, status |-> "error", code |-> http, message |-> message,
      details |-> details, data |-> NoData, available_endpoints |-> {},
      service |-> "ml-service" ]

\* success envelopes carry no code and no details
SuccessEnvelope(message, data) ==
    [ http |-> 200, status |-> "success", code |-> 0, message |-> message,
      details |-> "", data |-> data, available_endpoints |-> {},
      service |-> "ml-service" ]

NoResponse == [ http |-> 0, status |-> "", code |-> 0, message |-> "", details |-> "",
                data |-> NoData, available_endpoints |-> {}, service |-> "" ]

\* the global exception handler: details is str(e) only in debug mode
handle_exception(e, debug) ==
    ErrorEnvelope(500, "Internal server error",
                  IF debug THEN e ELSE "An unexpected error occurred")

handle_not_found(path) ==
    [ ErrorEnvelope(404, "Endpoint not found",
                    "The requested endpoint '" \o path \o "' does not exist")
      EXCEPT !.available_endpoints = available_endpoints ]

----------------------------------------------------------------------------
(* POST /forecast *)

\* request.get_json(): a JSON mimetype with no or unparseable bytes raises
\* BadRequest; another mimetype gives None, or raises in a Flask that
\* rejects it
get_json(req, strict) ==
    IF req.is_json
    THEN IF req.body.kind \in {"none", "garbage"}
         THEN Raise("400 Bad Request: Failed to decode JSON object")
         ELSE Return(req.body)
    ELSE IF strict
         THEN Raise("415 Unsupported Media Type: Did not attempt to load JSON data")
         ELSE Return(Plain("null"))

\* Python truth value of the parsed body
Truthy(data) ==
    CASE data.kind \in {"null", "emptylist"} -> FALSE
      [] data.kind = "obj" ->
            data.symbol.t # "absent" \/ data.model.t # "absent" \/ data.days.t # "absent"
      [] OTHER -> TRUE

\* value.upper() of a JSON value
upper(v) ==
    IF v.t = "str" THEN Return(Upper(v.s))
    ELSE Raise("'" \o v.t \o "' object has no attribute 'upper'")

\* another default model: data.get('model', 'ARIMA')
get_model_OtherDefault(data) == IF data.model.t = "absent" THEN Str("ARIMA") ELSE data.model

\* data.get('model', 'LSTM') and data.get('days', 30)
get_model(data) == IF data.model.t = "absent" THEN Str("LSTM") ELSE data.model
get_days(data)  == IF data.days.t = "absent" THEN Num(30) ELSE data.days

\* ', '.join(MOCK_MODELS.keys()), in the dict's insertion order
RECURSIVE Join(_)
Join(keys) ==
    IF Len(keys) = 0 THEN ""
    ELSE IF Len(keys) = 1 THEN keys[1]
    ELSE keys[1] \o ", " \o Join(Tail(keys))

CatalogKeys(catalog) ==
    SelectSeq(<<"LSTM", "CNN_LSTM", "ARIMA", "SARIMA", "ARCH_GARCH">>,
              LAMBDA k : k \in DOMAIN catalog)

\* the part of the try block after the required-fields check
ForecastValidated(data, catalog, d) ==
    LET sym == upper(data.symbol)
        mod == upper(get_model(data))
        days == get_days(data)
    IN  IF ~sym.ok THEN Raise(sym.error)
        ELSE IF ~mod.ok THEN Raise(mod.error)
        ELSE IF sym.value \notin {"SENSEX", "NIFTY50"}
        THEN Return(ErrorEnvelope(400, "Invalid symbol",
                 "Symbol '" \o sym.value \o "' not supported. Available: SENSEX, NIFTY50"))
        ELSE IF mod.value \notin DOMAIN catalog
        THEN Return(ErrorEnvelope(400, "Invalid model",
                 "Model '" \o mod.value \o "' not available. Available: "
                     \o Join(CatalogKeys(catalog))))
        ELSE LET f == generate_mock_forecast(sym.value, days, d)
             IN  IF ~f.ok THEN Raise(f.error)
                 ELSE Return(SuccessEnvelope(
                          "Forecast generated successfully for " \o sym.value,
                          [ symbol |-> sym.value,
                            model |-> mod.value,
                            forecast_period |-> ToStr(days.n) \o " days",
                            model_accuracy |-> catalog[mod.value].accuracy,
                            forecast |-> f.value ]))

\* the try block of generate_forecast
ForecastTry(req, strict, catalog, d) ==
    LET j == get_json(req, strict)
    IN  IF ~j.ok THEN Raise(j.error)
        ELSE IF ~Truthy(j.value)
        THEN Return(ErrorEnvelope(400, "Invalid request", "Request body must be valid JSON"))
        ELSE IF j.value.kind = "int" THEN Raise("argument of type 'int' is not iterable")
        ELSE IF j.value.kind = "str" \/ (j.value.kind = "obj" /\ j.value.symbol.t = "absent")
        THEN Return(ErrorEnvelope(400, "Missing required fields", "Missing fields: " \o Join(<<"symbol">>)))
        ELSE IF j.value.kind = "list_symbol"
        THEN Raise("list indices must be integers or slices, not str")
        ELSE ForecastValidated(j.value, catalog, d)

\* the except clause without the debug switch: details is always str(e)
forecast_Leaky(req, strict, catalog, debug, d) ==
    LET r == ForecastTry(req, strict, catalog, d)
    IN  IF r.ok THEN [response |-> r.value, raised |-> ""]
        ELSE [ response |-> ErrorEnvelope(500, "Forecast generation failed", r.error),
               raised |-> r.error ]

\* generate_forecast with its except clause: <<response, exception text>>
forecast(req, strict, catalog, debug, d) ==
    LET r == ForecastTry(req, strict, catalog, d)
    IN  IF r.ok THEN [response |-> r.value, raised |-> ""]
        ELSE [ response |-> ErrorEnvelope(500, "Forecast generation failed",
                                IF debug THEN r.error ELSE "Internal processing error"),
               raised |-> r.error ]

----------------------------------------------------------------------------
(* The request cycle *)

ThreadIds == {1, 2}

\* the requests that arrive while two threads serve concurrently: every
\* route, an unmatched path, a wrong method, and forecasts that succeed, are
\* rejected and fault
ConcurrentRequests ==
    {Req(r[1], r[2], FALSE, Plain("none")) : r \in url_map \ {<<"POST", "/forecast">>}}
    \cup {Req("GET", "/does-not-exist", FALSE, Plain("none")),
          Req("POST", "/models", TRUE, Plain("garbage")),
          Req("GET", "/forecast", FALSE, Plain("none"))}
    \cup {Req("POST", "/forecast", TRUE, b) :
             b \in {Body("obj", Str("SENSEX"), Absent, Num(1)),
                    Body("obj", Str("dowjones"), Str("arima"), Absent),
                    Body("obj", Str("nifty50"), Num(5), Num(1))}}

Arrivals == IF threads = {1} THEN Requests ELSE ConcurrentRequests

InitCommon ==
    /\ MOCK_MODELS = InitialCatalog
    /\ DEBUG \in BOOLEAN
    /\ strict_json \in BOOLEAN
    /\ pc = [t \in ThreadIds |-> "idle"]
    /\ request = [t \in ThreadIds |-> NoRequest]
    /\ response = [t \in ThreadIds |-> NoResponse]
    /\ raised = [t \in ThreadIds |-> ""]
    /\ logged = {}

\* requests are served one at a time
Init == InitCommon /\ threads = {1}

\* requests are served by two threads
InitConcurrent == InitCommon /\ threads = ThreadIds

Config == <<MOCK_MODELS, DEBUG, strict_json, threads>>

\* a request arrives at thread t
Receive(t) ==
    /\ pc[t] = "idle"
    /\ \E r \in Arrivals : request' = [request EXCEPT ![t] = r]
    /\ pc' = [pc EXCEPT ![t] = "before_request"]
    /\ UNCHANGED <<Config, response, raised, logged>>

\* @app.before_request: request.is_json and request.get_json(); an exception
\* goes to the global handler
log_request(t) ==
    /\ pc[t] = "before_request"
    /\ LET j == IF request[t].is_json THEN get_json(request[t], strict_json) ELSE Return(<<>>)
       IN  IF j.ok
           THEN pc' = [pc EXCEPT ![t] = "dispatch"] /\ UNCHANGED <<response, raised>>
           ELSE /\ response' = [response EXCEPT ![t] = handle_exception(j.error, DEBUG)]
                /\ raised' = [raised EXCEPT ![t] = j.error]
                /\ pc' = [pc EXCEPT ![t] = "after_request"]
    /\ UNCHANGED <<Config, request, logged>>

Routed(t, method, path) ==
    /\ pc[t] = "dispatch"
    /\ request[t].method = method
    /\ request[t].path = path

Respond(t, r, e) ==
    /\ response' = [response EXCEPT ![t] = r]
    /\ raised' = [raised EXCEPT ![t] = e]
    /\ pc' = [pc EXCEPT ![t] = "after_request"]
    /\ UNCHANGED <<request, logged>>

\* no rule of the url map has the path: NotFound, handled by the 404 handler
not_found(t) ==
    /\ pc[t] = "dispatch"
    /\ \A r \in url_map : r[2] # request[t].path
    /\ Respond(t, handle_not_found(request[t].path), "")
    /\ UNCHANGED Config

\* the path is registered for another method: MethodNotAllowed has no handler
\* of its own and falls to the handler registered for Exception
method_not_allowed(t) ==
    /\ pc[t] = "dispatch"
    /\ \E r \in url_map : r[2] = request[t].path
    /\ <<request[t].method, request[t].path>> \notin url_map
    /\ Respond(t, handle_exception("405 Method Not Allowed", DEBUG), "405 Method Not Allowed")
    /\ UNCHANGED Config

health_check(t) ==
    /\ Routed(t, "GET", "/health")
    /\ Respond(t, SuccessEnvelope("ML service is healthy and running", [version |-> "1.0.0"]), "")
    /\ UNCHANGED Config

\* import psutil may fail; the system figures are not modelled
detailed_health_check(t) ==
    /\ Routed(t, "GET", "/health/detailed")
    /\ \E psutil \in BOOLEAN :
         IF psutil
         THEN Respond(t, SuccessEnvelope("Detailed health check passed",
                  [ version |-> "1.0.0",
                    models |-> [available |-> DOMAIN MOCK_MODELS,
                                count |-> Cardinality(DOMAIN MOCK_MODELS)],
                    configuration |-> [debug |-> DEBUG] ]), "")
         ELSE Respond(t, handle_exception("No module named 'psutil'", DEBUG),
                      "No module named 'psutil'")
    /\ UNCHANGED Config

\* a forecast handler that stamps the catalog entry of the default model
generate_forecast_Stamping(t) ==
    /\ Routed(t, "POST", "/forecast")
    /\ \E d \in Draws :
         LET r == forecast(request[t], strict_json, MOCK_MODELS, DEBUG, d)
         IN  Respond(t, r.response, r.raised)
    /\ MOCK_MODELS' = [MOCK_MODELS EXCEPT !["LSTM"].last_trained = "now"]
    /\ UNCHANGED <<DEBUG, strict_json, threads>>

generate_forecast(t) ==
    /\ Routed(t, "POST", "/forecast")
    /\ \E d \in Draws :
         LET r == forecast(request[t], strict_json, MOCK_MODELS, DEBUG, d)
         IN  Respond(t, r.response, r.raised)
    /\ UNCHANGED Config

get_available_models(t) ==
    /\ Routed(t, "GET", "/models")
    /\ Respond(t, SuccessEnvelope("Available models retrieved successfully",
                   [ models |-> MOCK_MODELS,
                     count |-> Cardinality(DOMAIN MOCK_MODELS),
                     supported_symbols |-> SupportedSymbols ]), "")
    /\ UNCHANGED Config

error_400(t) ==
    /\ Routed(t, "GET", "/error/400")
    /\ Respond(t, ErrorEnvelope(400, "Bad Request",
                   "This is a simulated 400 error for testing purposes"), "")
    /\ UNCHANGED Config

error_500(t) ==
    /\ Routed(t, "GET", "/error/500")
    /\ Respond(t, ErrorEnvelope(500, "Internal Server Error",
                   "This is a simulated 500 error for testing purposes"), "")
    /\ UNCHANGED Config

error_throw(t) ==
    /\ Routed(t, "GET", "/error/throw")
    /\ Respond(t, handle_exception("This is a test exception for error handling verification", DEBUG),
               "This is a test exception for error handling verification")
    /\ UNCHANGED Config

\* @app.after_request: the status code is logged and the response leaves
log_response(t) ==
    /\ pc[t] = "after_request"
    /\ logged' = logged \cup {response[t].http}
    /\ pc' = [pc EXCEPT ![t] = "idle"]
    /\ request' = [request EXCEPT ![t] = NoRequest]
    /\ response' = [response EXCEPT ![t] = NoResponse]
    /\ raised' = [raised EXCEPT ![t] = ""]
    /\ UNCHANGED Config

Next ==
    \/ \E t \in threads : Receive(t)
    \/ \E t \in threads : log_request(t)
    \/ \E t \in threads : not_found(t)
    \/ \E t \in threads : method_not_allowed(t)
    \/ \E t \in threads : health_check(t)
    \/ \E t \in threads : detailed_health_check(t)
    \/ \E t \in threads : generate_forecast(t)
    \/ \E t \in threads : get_available_models(t)
    \/ \E t \in threads : error_400(t)
    \/ \E t \in threads : error_500(t)
    \/ \E t \in threads : error_throw(t)
    \/ \E t \in threads : log_response(t)

Spec == Init /\ [][Next]_vars

SpecConcurrent == InitConcurrent /\ [][Next]_vars

----------------------------------------------------------------------------
(* Properties *)

\* thread t has built a response for its request and is about to send it
Answered(t) == pc[t] = "after_request"

ForecastAnswered(t) ==
    Answered(t) /\ request[t].method = "POST" /\ request[t].path = "/forecast"

\* a POST /forecast whose body arrives as a parsed JSON object
ObjectAnswered(t) ==
    ForecastAnswered(t) /\ request[t].is_json /\ request[t].body.kind = "obj"

ForecastSucceeded(t) ==
    ForecastAnswered(t) /\ response[t].http = 200 /\ response[t].status = "success"

Is400(t, message) ==
    /\ response[t].http = 400
    /\ response[t].status = "error"
    /\ response[t].code = 400
    /\ response[t].message = message

\* the checks of the validator, stated on the request body
SymbolMissing(t) == request[t].body.symbol.t = "absent"

SymbolUnsupported(t) ==
    /\ ~SymbolMissing(t)
    /\ \/ request[t].body.symbol.t # "str"
       \/ Upper(request[t].body.symbol.s) \notin {"SENSEX", "NIFTY50"}

ModelUnavailable(t) ==
    /\ request[t].body.model.t # "absent"
    /\ \/ request[t].body.model.t # "str"
       \/ Upper(request[t].body.model.s) \notin DOMAIN InitialCatalog

\* C1: a POST /forecast body that fails two or more of the checks
\* (symbol-present, symbol-supported, model-in-catalog) is answered with the
\* 400 envelope of the earliest failing check: a missing symbol with a bad
\* model gives "Missing required fields", an unsupported symbol with a bad
\* model gives "Invalid symbol", never "Invalid model" or a 500.
C1_FirstFailingCheckReported ==
    \A t \in ThreadIds :
        (ObjectAnswered(t) /\ ModelUnavailable(t)) =>
            /\ SymbolMissing(t) => Is400(t, "Missing required fields")
            /\ SymbolUnsupported(t) => Is400(t, "Invalid symbol")

\* C2: a POST /forecast whose body is a JSON object without the key symbol,
\* the empty object included, is answered 400 "Missing required fields" with
\* details "Missing fields: symbol".
C2_MissingSymbolReported ==
    \A t \in ThreadIds :
        (ObjectAnswered(t) /\ SymbolMissing(t)) =>
            /\ Is400(t, "Missing required fields")
            /\ response[t].details = "Missing fields: symbol"

\* C3: a POST /forecast whose body is absent, unparseable, not sent as JSON
\* or not a JSON object is answered with the 400 envelope "Invalid request",
\* not with a 500 envelope.
C3_MissingBodyReported ==
    \A t \in ThreadIds :
        (ForecastAnswered(t) /\ (~request[t].is_json \/ request[t].body.kind # "obj")) =>
            Is400(t, "Invalid request")

\* C4: every success response of POST /forecast carries exactly as many
\* forecast points as the requested days (30 when days is omitted).
C4_SeriesLengthIsDays ==
    \A t \in ThreadIds :
        ForecastSucceeded(t) =>
            Len(response[t].data.forecast) =
                (IF request[t].body.days.t = "absent" THEN 30 ELSE request[t].body.days.n)

\* C5: every point of every returned series has
\* lower_bound <= predicted_price <= upper_bound, whatever was drawn.
C5_BoundsEnclosePrice ==
    \A t \in ThreadIds :
        ForecastSucceeded(t) =>
            \A i \in 1..Len(response[t].data.forecast) :
                LET pt == response[t].data.forecast[i]
                IN  /\ pt.lower_bound <= pt.predicted_price
                    /\ pt.predicted_price <= pt.upper_bound

\* C6: point i (0-indexed) of every returned series has confidence exactly
\* max(0.6, 0.95 - 0.01*i); so the confidences start at 0.95, never rise and
\* never fall below 0.6, whatever the symbol, the model and the draws.
C6_ConfidenceSchedule ==
    \A t \in ThreadIds :
        ForecastSucceeded(t) =>
            LET f == response[t].data.forecast
            IN  /\ \A k \in 1..Len(f) :
                      /\ f[k].confidence =
                            (IF 950 - 10 * (k - 1) >= 600 THEN 950 - 10 * (k - 1) ELSE 600)
                      /\ f[k].confidence >= 600
                /\ Len(f) >= 1 => f[1].confidence = 950
                /\ \A k \in 1..(Len(f) - 1) : f[k + 1].confidence <= f[k].confidence

\* a long series was returned: its confidence has decayed and reached the
\* floor, and the draws moved the price
C6_Witness ==
    /\ ForecastSucceeded(1)
    /\ Len(response[1].data.forecast) >= 37
    /\ response[1].data.forecast[35].confidence > 600
    /\ response[1].data.forecast[37].confidence = 600
    /\ response[1].data.forecast[1].predicted_price # response[1].data.forecast[2].predicted_price

GenericDetails == {"An unexpected error occurred", "Internal processing error"}

\* C7: whenever an exception is raised while a request is handled, the
\* response is a 500 error envelope; with debug off its details is the fixed
\* generic message and not the exception's text, and the exception's text is
\* the details only with debug on.
C7_FaultsHiddenOutsideDebug ==
    \A t \in ThreadIds :
        (Answered(t) /\ raised[t] # "") =>
            /\ response[t].http = 500
            /\ response[t].code = 500
            /\ response[t].status = "error"
            /\ ~DEBUG => (response[t].details \in GenericDetails /\ response[t].details # raised[t])
            /\ DEBUG => response[t].details = raised[t]
            /\ response[t].data = NoData

\* a fault inside the forecast handler answered with debug off
C7_Witness ==
    /\ ForecastAnswered(1)
    /\ raised[1] = "'int' object has no attribute 'upper'"
    /\ ~DEBUG
    /\ response[1].message = "Forecast generation failed"

\* C8: for a POST /forecast with a supported symbol, an omitted model is
\* handled as LSTM (data.model is LSTM with LSTM's accuracy, and the model is
\* never reported invalid) and an omitted days as 30 (30 points, period
\* "30 days").
C8_Defaults ==
    \A t \in ThreadIds :
        (ObjectAnswered(t) /\ ~SymbolMissing(t) /\ ~SymbolUnsupported(t)) =>
            /\ request[t].body.model.t = "absent" =>
                  /\ response[t].message # "Invalid model"
                  /\ response[t].http = 200 =>
                        /\ response[t].data.model = "LSTM"
                        /\ response[t].data.model_accuracy = 85
            /\ (request[t].body.days.t = "absent" /\ response[t].http = 200) =>
                  /\ Len(response[t].data.forecast) = 30
                  /\ response[t].data.forecast_period = "30 days"

\* the request {"symbol": "SENSEX"} answered with success
C8_Witness ==
    /\ ObjectAnswered(1)
    /\ request[1].body = Body("obj", Str("SENSEX"), Absent, Absent)
    /\ response[1].http = 200
    /\ response[1].data.model = "LSTM"
    /\ Len(response[1].data.forecast) = 30

C10_EndpointsListed ==
    \A t \in ThreadIds :
        (Answered(t) /\ response[t].http = 404) =>
            /\ \A r \in url_map : r \in response[t].available_endpoints
            /\ \A e \in response[t].available_endpoints : e \in url_map

====
